---- MODULE Spec2Model ----
(***************************************************************************)
(* Model of the MikanOS kernel core in src/mikan-os/kernel/src/main.rs:    *)
(* the boot sequence of kernel_entry, the xHCI interrupt handler           *)
(* int_handler_xhci, and the idle/dispatch loop, on one CPU.               *)
(*                                                                         *)
(* main.rs declares the modules queue, pci, interrupt and usb; what the     *)
(* kernel needs of them (ArrayQueue, class_code().match, the event ring,   *)
(* end-of-interrupt) follows the design document, spec.md sections 3-4.    *)
(***************************************************************************)
EXTENDS Integers, Sequences, FiniteSets, TLC

(***************************************************************************)
(* Bounds of the model.                                                    *)
(***************************************************************************)
\* devices the PCI scan records at most (the table's real capacity is 32)
MaxDevices == 2
\* root hub ports the controller reports at most
MaxPorts == 2
\* events the controller can have outstanding on the primary event ring
MaxRing == 2

(***************************************************************************)
(* Program constants.                                                      *)
(***************************************************************************)
\* main.rs:112  MAIN_QUEUE_BUF_SIZE = size_of::<Message>() * 32
MainQueueCapacity_34 == 32 + 2
MainQueueCapacity == 32
\* main.rs:249, 299, 88  vendor id of Intel
IntelVendor == 32902
\* the non-Intel vendor of the design document's scenario (0x1B36)
OtherVendor == 6966
\* main.rs:246  class code of an xHCI controller (0x0c, 0x03, 0x30)
XhciClass == <<12, 3, 48>>
\* main.rs:87   class code of an EHCI controller (0x0c, 0x03, 0x20)
EhciClass == <<12, 3, 32>>

VARIABLES
    bus,            \* hardware: the functions present on the PCI bus, in scan order
    hubPorts,       \* hardware: the number of root hub ports of the controller
    tableRoom,      \* hardware: how many of the functions of bus fit the device table
                    \* (functions that are no USB controller take the rest of it)
    barReadable,    \* hardware: read_bar(0) of the controller succeeds
    scanErr,        \* kernel_entry: scan_all_bus returned an error (table full)
    barFailed,      \* kernel_entry: read_bar(0) returned an error
    pc,             \* kernel_entry: the statement the normal context is at
    iflag,          \* RFLAGS.IF: maskable interrupts are enabled
    shadow,         \* the one-instruction interrupt shadow after sti
    adjacent,       \* whether the build emitted "sti" and "hlt" of lines 344-345 back
                    \* to back: "yes" or "no", "unobserved" until line 344 first runs
    hpc,            \* int_handler_xhci: 0 = not running, k = at statement k of its body
    savedIF,        \* RFLAGS.IF as saved in the handler's interrupt frame
    irqPending,     \* local APIC: the xHCI vector is requested (IRR)
    inService,      \* local APIC: the xHCI vector is in service (ISR), until EOI
    mainQueueInit,  \* MAIN_QUEUE OnceCell is set
    queue,          \* MAIN_QUEUE contents, oldest first
    msg,            \* dispatch loop: local msg
    cursorInit,     \* MOUSE_CURSOR OnceCell is set
    devices,        \* pci::DEVICES[0..NUM_DEVICES]
    xhc_dev,        \* kernel_entry: local xhc_dev (0 = None, i = Some(devices[i]))
    idtXhci,        \* IDT[InterruptVector::XHCI] holds int_handler_xhci
    idtLoaded,      \* IDTR points at IDT
    msiConfigured,  \* the chosen device's MSI capability targets the xHCI vector
    xhcState,       \* Controller: "None", "Created", "Initialized", "Running"
    xhcCell,        \* XHC OnceCell is set
    observerSet,    \* HIDMouseDriver default observer is set
    confWrites,     \* configuration registers written by switch_ehci2xhci, in order
    ring,           \* primary event ring: events not yet processed, oldest first
    maxPorts,       \* value of xhc.max_ports() read by the port loop
    portI,          \* port loop: local i
    portReport,     \* per port: what is_connected() returned to line 328
    configureCalls, \* per port: number of configure_port calls
    configureFailed,\* per port: configure_port returned an error
    eoiCount,       \* notify_end_of_interrupt calls of the handler execution under way
    pushDone,       \* the handler execution under way has completed its push
    pushFailed,     \* that push was rejected by the queue
    cliN,           \* cli instructions of the loop iteration under way
    stiN,           \* sti instructions of the loop iteration under way
    popN,           \* pop calls of the loop iteration under way
    processErr,     \* the process_event call just made returned an error
    idleIrqs        \* handler executions since the last length check that saw 0 (capped at 2)

machine == <<bus, hubPorts, tableRoom, barReadable>>
bootErrs == <<scanErr, barFailed>>
cpuVars == <<iflag, shadow, adjacent>>
apicVars == <<irqPending, inService>>
handlerVars == <<hpc, savedIF, eoiCount, pushDone, pushFailed>>
queueVars == <<mainQueueInit, queue>>
pciVars == <<devices, xhc_dev, msiConfigured, confWrites>>
idtVars == <<idtXhci, idtLoaded>>
xhcVars == <<xhcState, xhcCell, observerSet, ring>>
portVars == <<maxPorts, portI, portReport, configureCalls, configureFailed>>
loopVars == <<msg, cliN, stiN, idleIrqs>>
drainVars == <<popN, processErr>>

vars == <<machine, bootErrs, drainVars, pc, cursorInit, cpuVars, apicVars, handlerVars, queueVars, pciVars,
          idtVars, xhcVars, portVars, loopVars>>

(***************************************************************************)
(* Values.                                                                 *)
(***************************************************************************)
\* Message::new(MessageType::InteruptXHCI)
XhciMessage == [type |-> "InteruptXHCI"]

NoMessage == [type |-> "none"]

\* a device record of the PCI table: vendor id and class code
DeviceKinds == [vendor : {IntelVendor, OtherVendor}, class : {XhciClass, EhciClass}]

RECURSIVE TablesOfLen(_)
TablesOfLen(n) ==
    IF n = 0 THEN {<<>>}
    ELSE {Append(t, d) : t \in TablesOfLen(n - 1), d \in DeviceKinds}

\* the PCI buses within the bound: every sequence of at most MaxDevices functions
DeviceTables == UNION {TablesOfLen(n) : n \in 0..MaxDevices}

\* the buses with a single function
SingleFunctionBuses == TablesOfLen(1)

(***************************************************************************)
(* ArrayQueue<Message> (module queue): a fixed-capacity FIFO.              *)
(***************************************************************************)
\* ArrayQueue::len
ArrayQueue_len(q) == Len(q)

\* ArrayQueue::push: rejected when the queue is full, else stored as the newest
ArrayQueue_push(q, m) ==
    IF Len(q) >= MainQueueCapacity
    THEN [q |-> q, ok |-> FALSE]
    ELSE [q |-> Append(q, m), ok |-> TRUE]

\* ArrayQueue::front: the oldest entry, if any
ArrayQueue_front(q) == IF Len(q) = 0 THEN NoMessage ELSE Head(q)

\* ArrayQueue::pop: removes and yields the oldest entry, or yields no value
ArrayQueue_pop(q) ==
    IF Len(q) = 0
    THEN [q |-> q, value |-> NoMessage]
    ELSE [q |-> Tail(q), value |-> Head(q)]

(***************************************************************************)
(* Event ring of the controller (module usb).                              *)
(***************************************************************************)
\* primary_event_ring().has_front(): the ring holds an event not yet read
EventRing_has_front(r) == Len(r) > 0

\* process_event(): the read cursor moves past the oldest event; with no event
\* to read nothing moves
Controller_process_event(r) == IF EventRing_has_front(r) THEN Tail(r) ELSE r

(***************************************************************************)
(* PCI helpers (module pci).                                               *)
(***************************************************************************)
\* ClassCode::match(base, sub, interface): exact match of the triple
ClassMatch(cc, base, sub, interface) == cc = <<base, sub, interface>>

(***************************************************************************)
(* kernel_entry, lines 244-253: the xHC selection loop over the table.     *)
(* cur is xhc_dev (0 = None); the result is xhc_dev after the loop.        *)
(***************************************************************************)
RECURSIVE SelectFrom(_, _, _)
SelectFrom(devs, i, cur) ==
    IF i > Len(devs) THEN cur
    ELSE IF ClassMatch(devs[i].class, 12, 3, 48)
         THEN IF devs[i].vendor = IntelVendor
              THEN i
              ELSE SelectFrom(devs, i + 1, i)
         ELSE SelectFrom(devs, i + 1, cur)

\* the loop without its vendor test: every match overwrites xhc_dev
RECURSIVE SelectFromNoBreak(_, _, _)
SelectFromNoBreak(devs, i, cur) ==
    IF i > Len(devs) THEN cur
    ELSE IF ClassMatch(devs[i].class, 12, 3, 48)
         THEN SelectFromNoBreak(devs, i + 1, i)
         ELSE SelectFromNoBreak(devs, i + 1, cur)

SelectXhc_NoBreak(devs) == SelectFromNoBreak(devs, 1, 0)

\* the loop keeping an earlier non-Intel match instead of overwriting it
RECURSIVE SelectFromKeepFirst(_, _, _)
SelectFromKeepFirst(devs, i, cur) ==
    IF i > Len(devs) THEN cur
    ELSE IF ClassMatch(devs[i].class, 12, 3, 48)
         THEN IF devs[i].vendor = IntelVendor
              THEN i
              ELSE SelectFromKeepFirst(devs, i + 1, IF cur = 0 THEN i ELSE cur)
         ELSE SelectFromKeepFirst(devs, i + 1, cur)

SelectXhc_KeepFirst(devs) == SelectFromKeepFirst(devs, 1, 0)

SelectXhc(devs) == SelectFrom(devs, 1, 0)

\* the variant of the test below without the vendor comparison of line 88
IntelEhcExists_AnyVendor(devs) ==
    \E i \in 1..Len(devs) : ClassMatch(devs[i].class, 12, 3, 32)

\* switch_ehci2xhci, lines 82-93: an Intel EHCI controller is in the table
IntelEhcExists(devs) ==
    \E i \in 1..Len(devs) :
        ClassMatch(devs[i].class, 12, 3, 32) /\ devs[i].vendor = IntelVendor

(***************************************************************************)
(* Program text: the statements of kernel_entry from line 209 to the       *)
(* dispatch loop, in program order, and the body of int_handler_xhci.      *)
(***************************************************************************)
\* the same statements with the controller started right after the device is chosen
kernel_entry_RunEarly ==
    << "MOUSE_CURSOR", "MAIN_QUEUE", "scan_all_bus", "select_xhc", "unwrap_xhc_dev",
       "read_bar", "Controller_new", "switch_ehci2xhci", "initialize", "run",
       "set_idt_entry", "load_idt", "configure_msi",
       "XHC", "set_default_observer", "ports" >>

\* the same statements with the main queue initialized after the controller runs
kernel_entry_LateQueue ==
    << "MOUSE_CURSOR", "scan_all_bus", "select_xhc", "unwrap_xhc_dev",
       "set_idt_entry", "load_idt", "configure_msi",
       "read_bar", "Controller_new", "switch_ehci2xhci", "initialize", "run",
       "MAIN_QUEUE", "XHC", "set_default_observer", "ports" >>

kernel_entry ==
    << "MOUSE_CURSOR", "MAIN_QUEUE", "scan_all_bus", "select_xhc", "unwrap_xhc_dev",
       "set_idt_entry", "load_idt", "configure_msi",
       "read_bar", "Controller_new", "switch_ehci2xhci", "initialize", "run",
       "XHC", "set_default_observer", "ports" >>

\* the statement after l in kernel_entry; after the last one, the loop's cli
After(l) ==
    LET k == CHOOSE j \in 1..Len(kernel_entry) : kernel_entry[j] = l
    IN  IF k = Len(kernel_entry) THEN "cli" ELSE kernel_entry[k + 1]

\* the handler acknowledging the interrupt before it pushes
int_handler_xhci_EoiFirst == << "notify_end_of_interrupt", "push" >>

\* the handler without its push
int_handler_xhci_NoPush == << "notify_end_of_interrupt" >>

int_handler_xhci == << "push", "notify_end_of_interrupt" >>

\* line 119: the Result of push is dropped, not unwrapped
PushErrorIgnored_No == FALSE

PushErrorIgnored == TRUE

\* line 271: the descriptor is an interrupt gate, so the CPU clears IF on entry
XhciGateType_Trap == "TrapGate"

XhciGateType == "InterruptGate"

\* lines 350-358: the statements of the non-empty branch of the loop up to the
\* while test, in program order; the variants enter the body of the while
\* before its test, and leave out the sti of line 352
dispatch_branch_DoWhile == <<"front", "pop", "sti", "process_event">>

dispatch_branch_NoSti == <<"front", "pop", "has_front">>

dispatch_branch == <<"front", "pop", "sti", "has_front">>

\* the statement after l in the non-empty branch
DispatchAfter(l) ==
    dispatch_branch[(CHOOSE k \in 1..Len(dispatch_branch) : dispatch_branch[k] = l) + 1]

\* lines 359-362: where the loop goes after process_event returned err; the
\* variant stops the kernel on an error
AfterProcessEvent_Halt(err) == IF err THEN "panic" ELSE "has_front"

AfterProcessEvent(err) == "has_front"

\* lines 220-221: the error of scan_all_bus is logged, never tested
ScanErrorFatal_Yes == TRUE

ScanErrorFatal == FALSE

\* lines 330-334: an error of configure_port is logged and the loop continues
\* with the next port; the variant goes round again on the port that failed
NextPort_Retry(i, failed) == IF failed THEN i ELSE i + 1

NextPort(i, failed) == i + 1

\* line 328: configure_port is called only under port.is_connected()
ShouldConfigure_Always(connected) == TRUE

ShouldConfigure(connected) == connected

(***************************************************************************)
(* Initial state: control has just reached line 209 of kernel_entry.       *)
(* The boot loader may hand over with interrupts on or off, and the build  *)
(* may or may not place the "sti" and "hlt" of two separate asm! blocks    *)
(* next to each other.                                                     *)
(***************************************************************************)
InitOn(buses, ports, faults) ==
    /\ bus \in buses
    /\ hubPorts \in ports
    /\ tableRoom \in (IF faults THEN 0..Len(bus) ELSE {}) \cup {Len(bus) + 1}
    /\ barReadable \in (IF faults THEN {FALSE} ELSE {}) \cup {TRUE}
    /\ scanErr = FALSE
    /\ barFailed = FALSE
    /\ pc = kernel_entry[1]
    /\ iflag \in BOOLEAN
    /\ shadow = FALSE
    /\ adjacent = "unobserved"
    /\ hpc = 0
    /\ savedIF = FALSE
    /\ irqPending = FALSE
    /\ inService = FALSE
    /\ mainQueueInit = FALSE
    /\ queue = <<>>
    /\ msg = NoMessage
    /\ cursorInit = FALSE
    /\ devices = <<>>
    /\ xhc_dev = 0
    /\ idtXhci = FALSE
    /\ idtLoaded = FALSE
    /\ msiConfigured = FALSE
    /\ xhcState = "None"
    /\ xhcCell = FALSE
    /\ observerSet = FALSE
    /\ confWrites = <<>>
    /\ ring = <<>>
    /\ maxPorts = 0
    /\ portI = 0
    /\ portReport = <<>>
    /\ configureCalls = <<>>
    /\ configureFailed = <<>>
    /\ eoiCount = 0
    /\ pushDone = FALSE
    /\ pushFailed = FALSE
    /\ cliN = 0
    /\ stiN = 0
    /\ idleIrqs = -1
    /\ popN = 0
    /\ processErr = FALSE

\* the kernel on a machine with one PCI function and one root hub port, whose
\* device table does not fill and whose BAR reads
Init == InitOn(SingleFunctionBuses, {1}, FALSE)

\* the kernel on every machine within the bounds; the machines whose device
\* table fills or whose BAR does not read have one root hub port
BootInit == InitOn(DeviceTables, 1..MaxPorts, FALSE) \/ InitOn(DeviceTables, {1}, TRUE)

\* the normal context executes the statement labelled l: no handler is running
Main(l) == pc = l /\ hpc = 0

(***************************************************************************)
(* kernel_entry, boot sequence.                                            *)
(***************************************************************************)
\* lines 209-214
MouseCursorInit ==
    /\ Main("MOUSE_CURSOR")
    /\ cursorInit' = TRUE
    /\ pc' = After("MOUSE_CURSOR")
    /\ UNCHANGED <<machine, bootErrs, drainVars, cpuVars, apicVars, handlerVars, queueVars, pciVars, idtVars,
                   xhcVars, portVars, loopVars>>

\* line 217
MainQueueInit ==
    /\ Main("MAIN_QUEUE")
    /\ mainQueueInit' = TRUE
    /\ queue' = IF mainQueueInit THEN queue ELSE <<>>
    /\ pc' = After("MAIN_QUEUE")
    /\ UNCHANGED <<machine, bootErrs, drainVars, cursorInit, cpuVars, apicVars, handlerVars, pciVars, idtVars,
                   xhcVars, portVars, loopVars>>

\* lines 220-221: the scan records the functions on the bus until the table is
\* full; its error is logged and nothing else is done with it
ScanAllBus ==
    /\ Main("scan_all_bus")
    /\ devices' = SubSeq(bus, 1, IF tableRoom < Len(bus) THEN tableRoom ELSE Len(bus))
    /\ scanErr' = (tableRoom <= Len(bus))
    /\ pc' = IF scanErr' /\ ScanErrorFatal THEN "panic" ELSE After("scan_all_bus")
    /\ UNCHANGED <<machine, barFailed, drainVars, cursorInit, cpuVars, apicVars, handlerVars, queueVars, xhc_dev,
                   msiConfigured, confWrites, idtVars, xhcVars, portVars, loopVars>>

\* lines 244-253
SelectXhcDev ==
    /\ Main("select_xhc")
    /\ xhc_dev' = SelectXhc(devices)
    /\ pc' = After("select_xhc")
    /\ UNCHANGED <<machine, bootErrs, drainVars, cursorInit, cpuVars, apicVars, handlerVars, queueVars, devices,
                   msiConfigured, confWrites, idtVars, xhcVars, portVars, loopVars>>

\* line 266: xhc_dev.unwrap() panics on None, and panic halts for ever
UnwrapXhcDev ==
    /\ Main("unwrap_xhc_dev")
    /\ pc' = IF xhc_dev = 0 THEN "panic" ELSE After("unwrap_xhc_dev")
    /\ UNCHANGED <<machine, bootErrs, drainVars, cursorInit, cpuVars, apicVars, handlerVars, queueVars, pciVars,
                   idtVars, xhcVars, portVars, loopVars>>

\* lines 270-274
SetIdtEntry ==
    /\ Main("set_idt_entry")
    /\ idtXhci' = TRUE
    /\ pc' = After("set_idt_entry")
    /\ UNCHANGED <<machine, bootErrs, drainVars, cursorInit, cpuVars, apicVars, handlerVars, queueVars, pciVars,
                   idtLoaded, xhcVars, portVars, loopVars>>

\* lines 275-278
LoadIdt ==
    /\ Main("load_idt")
    /\ idtLoaded' = TRUE
    /\ pc' = After("load_idt")
    /\ UNCHANGED <<machine, bootErrs, drainVars, cursorInit, cpuVars, apicVars, handlerVars, queueVars, pciVars,
                   idtXhci, xhcVars, portVars, loopVars>>

\* lines 281-288
ConfigureMsi ==
    /\ Main("configure_msi")
    /\ msiConfigured' = TRUE
    /\ pc' = After("configure_msi")
    /\ UNCHANGED <<machine, bootErrs, drainVars, cursorInit, cpuVars, apicVars, handlerVars, queueVars, devices,
                   xhc_dev, confWrites, idtVars, xhcVars, portVars, loopVars>>

\* lines 292-295: the BAR is read, its error only logged
ReadBar ==
    /\ Main("read_bar")
    /\ barFailed' = ~barReadable
    /\ pc' = After("read_bar")
    /\ UNCHANGED <<machine, scanErr, drainVars, cursorInit, cpuVars, apicVars, handlerVars, queueVars, pciVars,
                   idtVars, xhcVars, portVars, loopVars>>

\* line 297
ControllerNew ==
    /\ Main("Controller_new")
    /\ xhcState' = "Created"
    /\ pc' = After("Controller_new")
    /\ UNCHANGED <<machine, bootErrs, drainVars, cursorInit, cpuVars, apicVars, handlerVars, queueVars, pciVars,
                   idtVars, xhcCell, observerSet, ring, portVars, loopVars>>

\* lines 299-301 and 81-108: the handoff writes registers 0xd8 then 0xd0
SwitchEhci2Xhci ==
    /\ Main("switch_ehci2xhci")
    /\ confWrites' =
          IF xhc_dev # 0 /\ devices[xhc_dev].vendor = IntelVendor /\ IntelEhcExists(devices)
          THEN confWrites \o <<216, 208>>
          ELSE confWrites
    /\ pc' = After("switch_ehci2xhci")
    /\ UNCHANGED <<machine, bootErrs, drainVars, cursorInit, cpuVars, apicVars, handlerVars, queueVars, devices,
                   xhc_dev, msiConfigured, idtVars, xhcVars, portVars, loopVars>>

\* lines 302-305
Initialize ==
    /\ Main("initialize")
    /\ xhcState' = "Initialized"
    /\ pc' = After("initialize")
    /\ UNCHANGED <<machine, bootErrs, drainVars, cursorInit, cpuVars, apicVars, handlerVars, queueVars, pciVars,
                   idtVars, xhcCell, observerSet, ring, portVars, loopVars>>

\* line 308
Run ==
    /\ Main("run")
    /\ xhcState' = "Running"
    /\ pc' = After("run")
    /\ UNCHANGED <<machine, bootErrs, drainVars, cursorInit, cpuVars, apicVars, handlerVars, queueVars, pciVars,
                   idtVars, xhcCell, observerSet, ring, portVars, loopVars>>

\* lines 310-312
XhcCellInit ==
    /\ Main("XHC")
    /\ xhcCell' = TRUE
    /\ pc' = After("XHC")
    /\ UNCHANGED <<machine, bootErrs, drainVars, cursorInit, cpuVars, apicVars, handlerVars, queueVars, pciVars,
                   idtVars, xhcState, observerSet, ring, portVars, loopVars>>

\* line 314
SetDefaultObserver ==
    /\ Main("set_default_observer")
    /\ observerSet' = TRUE
    /\ pc' = After("set_default_observer")
    /\ UNCHANGED <<machine, bootErrs, drainVars, cursorInit, cpuVars, apicVars, handlerVars, queueVars, pciVars,
                   idtVars, xhcState, xhcCell, ring, portVars, loopVars>>

\* lines 317-319: XHC.get_mut().unwrap(), then the range 1..=xhc.max_ports()
PortsBegin ==
    /\ Main("ports")
    /\ IF xhcCell
       THEN /\ maxPorts' = hubPorts
            /\ portI' = 1
            /\ portReport' = [i \in 1..hubPorts |-> "unvisited"]
            /\ configureCalls' = [i \in 1..hubPorts |-> 0]
            /\ configureFailed' = [i \in 1..hubPorts |-> FALSE]
            /\ pc' = "port_loop"
       ELSE /\ pc' = "panic"
            /\ UNCHANGED portVars
    /\ UNCHANGED <<machine, bootErrs, drainVars, cursorInit, cpuVars, apicVars, handlerVars, queueVars, pciVars,
                   idtVars, xhcVars, loopVars>>

\* lines 320-334: one iteration; configure_port may fail, which is only logged
PortVisit ==
    /\ Main("port_loop")
    /\ portI <= maxPorts
    /\ \E connected \in BOOLEAN, failed \in BOOLEAN :
          /\ portReport' = [portReport EXCEPT
                               ![portI] = IF connected THEN "connected" ELSE "disconnected"]
          /\ configureCalls' = [configureCalls EXCEPT
                               ![portI] = IF ShouldConfigure(connected) THEN @ + 1 ELSE @]
          /\ configureFailed' = [configureFailed EXCEPT
                               ![portI] = ShouldConfigure(connected) /\ failed]
          /\ portI' = NextPort(portI, ShouldConfigure(connected) /\ failed)
    /\ UNCHANGED <<machine, bootErrs, drainVars, pc, maxPorts, cursorInit, cpuVars, apicVars, handlerVars, queueVars,
                   pciVars, idtVars, xhcVars, loopVars>>

\* lines 335-338: the range is exhausted; control enters the dispatch loop
PortsEnd ==
    /\ Main("port_loop")
    /\ portI > maxPorts
    /\ pc' = After("ports")
    /\ UNCHANGED <<machine, bootErrs, drainVars, cursorInit, cpuVars, apicVars, handlerVars, queueVars, pciVars,
                   idtVars, xhcVars, portVars, loopVars>>

(***************************************************************************)
(* kernel_entry, the idle/dispatch loop, lines 338-365.                    *)
(***************************************************************************)
\* line 339
Cli ==
    /\ Main("cli")
    /\ iflag' = FALSE
    /\ shadow' = FALSE
    /\ cliN' = cliN + 1
    /\ pc' = "len"
    /\ UNCHANGED <<machine, bootErrs, drainVars, adjacent, cursorInit, apicVars, handlerVars, queueVars, pciVars,
                   idtVars, xhcVars, portVars, msg, stiN, idleIrqs>>

\* lines 340-342: MAIN_QUEUE.get_mut().unwrap(), then the test of len()
LenCheck ==
    /\ Main("len")
    /\ IF ~mainQueueInit
       THEN pc' = "panic" /\ UNCHANGED idleIrqs
       ELSE IF ArrayQueue_len(queue) = 0
            THEN pc' = "sti_idle" /\ idleIrqs' = 0
            ELSE pc' = "front" /\ idleIrqs' = -1
    /\ UNCHANGED <<machine, bootErrs, drainVars, cursorInit, cpuVars, apicVars, handlerVars, queueVars, pciVars,
                   idtVars, xhcVars, portVars, msg, cliN, stiN>>

\* line 344: sti; the instruction after it runs before any interrupt is taken
StiIdle ==
    /\ Main("sti_idle")
    /\ iflag' = TRUE
    /\ \E a \in (IF adjacent = "unobserved" THEN {"yes", "no"} ELSE {adjacent}) :
          /\ adjacent' = a
          /\ shadow' = (a = "yes")
    /\ stiN' = stiN + 1
    /\ pc' = "hlt"
    /\ UNCHANGED <<machine, bootErrs, drainVars, cursorInit, apicVars, handlerVars, queueVars, pciVars,
                   idtVars, xhcVars, portVars, msg, cliN, idleIrqs>>

\* line 345: hlt; the processor stops until an interrupt is delivered
Hlt ==
    /\ Main("hlt")
    /\ shadow' = FALSE
    /\ pc' = "halted"
    /\ UNCHANGED <<machine, bootErrs, drainVars, iflag, adjacent, cursorInit, apicVars, handlerVars, queueVars,
                   pciVars, idtVars, xhcVars, portVars, loopVars>>

\* line 350: *main_queue.front().unwrap()
Front ==
    /\ Main("front")
    /\ IF Len(queue) = 0
       THEN pc' = "panic" /\ UNCHANGED msg
       ELSE pc' = DispatchAfter("front") /\ msg' = ArrayQueue_front(queue)
    /\ UNCHANGED <<machine, bootErrs, drainVars, cursorInit, cpuVars, apicVars, handlerVars, queueVars, pciVars,
                   idtVars, xhcVars, portVars, cliN, stiN, idleIrqs>>

\* line 351
Pop ==
    /\ Main("pop")
    /\ queue' = ArrayQueue_pop(queue).q
    /\ popN' = popN + 1
    /\ pc' = DispatchAfter("pop")
    /\ UNCHANGED <<machine, bootErrs, processErr, cursorInit, cpuVars, apicVars, handlerVars, mainQueueInit, pciVars,
                   idtVars, xhcVars, portVars, loopVars>>

\* line 352
Sti ==
    /\ Main("sti")
    /\ iflag' = TRUE
    /\ stiN' = stiN + 1
    /\ pc' = DispatchAfter("sti")
    /\ UNCHANGED <<machine, bootErrs, drainVars, shadow, adjacent, cursorInit, apicVars, handlerVars, queueVars,
                   pciVars, idtVars, xhcVars, portVars, msg, cliN, idleIrqs>>

\* lines 354-357 and 362-365: the match on msg, XHC.get_mut().unwrap(), and the
\* while test; when the ring has no event the iteration ends and the loop restarts
HasFront ==
    /\ Main("has_front")
    /\ IF ~xhcCell
       THEN pc' = "panic" /\ UNCHANGED <<loopVars, drainVars>>
       ELSE IF EventRing_has_front(ring)
            THEN /\ pc' = "process_event"
                 /\ processErr' = FALSE
                 /\ UNCHANGED <<loopVars, popN>>
            ELSE /\ pc' = "cli"
                 /\ msg' = NoMessage
                 /\ cliN' = 0
                 /\ stiN' = 0
                 /\ popN' = 0
                 /\ processErr' = FALSE
                 /\ UNCHANGED idleIrqs
    /\ UNCHANGED <<machine, bootErrs, cursorInit, cpuVars, apicVars, handlerVars, queueVars, pciVars,
                   idtVars, xhcVars, portVars>>

\* lines 358-361: process_event consumes the oldest event, if there is one, and
\* succeeds or fails; its error is only logged
ProcessEvent ==
    /\ Main("process_event")
    /\ \E err \in BOOLEAN :
          /\ ring' = Controller_process_event(ring)
          /\ processErr' = err
          /\ pc' = AfterProcessEvent(err)
    /\ UNCHANGED <<machine, bootErrs, popN, cursorInit, cpuVars, apicVars, handlerVars, queueVars, pciVars,
                   idtVars, xhcState, xhcCell, observerSet, portVars, loopVars>>

(***************************************************************************)
(* The controller and the interrupt path.                                  *)
(***************************************************************************)
\* a running controller writes an event to the ring and signals its MSI;
\* one event at a time may be singled out (tracked) to follow its fate
HwEvent ==
    /\ xhcState = "Running"
    /\ Len(ring) < MaxRing
    /\ \E t \in BOOLEAN :
          /\ t => \A k \in 1..Len(ring) : ~ring[k].tracked
          /\ ring' = Append(ring, [tracked |-> t])
    /\ irqPending' = (irqPending \/ msiConfigured)
    /\ UNCHANGED <<machine, bootErrs, drainVars, pc, cursorInit, cpuVars, inService, handlerVars, queueVars, pciVars,
                   idtVars, xhcState, xhcCell, observerSet, portVars, loopVars>>

\* the CPU takes the pending xHCI interrupt between two instructions of the
\* normal context: through the gate of line 271, waking a halted processor
\* (which then resumes after line 345, at the continue of line 347)
Deliver ==
    /\ irqPending /\ ~inService
    /\ iflag /\ ~shadow
    /\ hpc = 0
    /\ pc # "fault"
    /\ irqPending' = FALSE
    /\ IF idtLoaded /\ idtXhci
       THEN /\ inService' = TRUE
            /\ savedIF' = iflag
            /\ iflag' = (XhciGateType # "InterruptGate")
            /\ hpc' = 1
            /\ eoiCount' = 0
            /\ pushDone' = FALSE
            /\ pushFailed' = FALSE
            /\ pc' = IF pc = "halted" THEN "cli" ELSE pc
            /\ cliN' = IF pc = "halted" THEN 0 ELSE cliN
            /\ stiN' = IF pc = "halted" THEN 0 ELSE stiN
            /\ idleIrqs' = IF idleIrqs = -1 THEN -1
                           ELSE IF idleIrqs >= 2 THEN 2 ELSE idleIrqs + 1
       ELSE /\ pc' = "fault"
            /\ UNCHANGED <<inService, savedIF, iflag, hpc, eoiCount, pushDone,
                           pushFailed, cliN, stiN, idleIrqs>>
    /\ UNCHANGED <<machine, bootErrs, drainVars, shadow, adjacent, msg, cursorInit, queueVars, pciVars, idtVars,
                   xhcVars, portVars>>

\* lines 116-121: the handler body holds no reference to XHC and calls nothing
\* of the controller; the variant drains the event ring from the handler
HandlerDrains_Yes == TRUE

HandlerDrains == FALSE

\* the handler is at statement s of its body
HandlerAt(s) == hpc \in 1..Len(int_handler_xhci) /\ int_handler_xhci[hpc] = s

\* lines 118-119: MAIN_QUEUE.get_mut().unwrap(), then push
HandlerPush ==
    /\ HandlerAt("push")
    /\ LET r == ArrayQueue_push(queue, XhciMessage)
       IN  IF ~mainQueueInit \/ (~r.ok /\ ~PushErrorIgnored)
           THEN /\ hpc' = -1
                /\ UNCHANGED <<queue, pushDone, pushFailed>>
           ELSE /\ queue' = r.q
                /\ pushDone' = TRUE
                /\ pushFailed' = ~r.ok
                /\ hpc' = hpc + 1
    /\ ring' = IF HandlerDrains THEN <<>> ELSE ring
    /\ UNCHANGED <<machine, bootErrs, drainVars, pc, cursorInit, cpuVars, apicVars, savedIF, eoiCount, mainQueueInit,
                   pciVars, idtVars, xhcState, xhcCell, observerSet, portVars, loopVars>>

\* line 120
HandlerEoi ==
    /\ HandlerAt("notify_end_of_interrupt")
    /\ inService' = FALSE
    /\ eoiCount' = eoiCount + 1
    /\ hpc' = hpc + 1
    /\ UNCHANGED <<machine, bootErrs, drainVars, pc, cursorInit, cpuVars, irqPending, savedIF, pushDone, pushFailed,
                   queueVars, pciVars, idtVars, xhcVars, portVars, loopVars>>

\* line 121: return from the handler; iret restores the saved flags
HandlerIret ==
    /\ hpc = Len(int_handler_xhci) + 1
    /\ iflag' = savedIF
    /\ hpc' = 0
    /\ eoiCount' = 0
    /\ pushDone' = FALSE
    /\ pushFailed' = FALSE
    /\ UNCHANGED <<machine, bootErrs, drainVars, pc, shadow, adjacent, cursorInit, apicVars, savedIF, queueVars,
                   pciVars, idtVars, xhcVars, portVars, loopVars>>

(***************************************************************************)
(* Specifications.                                                         *)
(***************************************************************************)
Normal ==
    \/ MouseCursorInit \/ MainQueueInit \/ ScanAllBus \/ SelectXhcDev \/ UnwrapXhcDev
    \/ SetIdtEntry \/ LoadIdt \/ ConfigureMsi \/ ReadBar \/ ControllerNew
    \/ SwitchEhci2Xhci \/ Initialize \/ Run \/ XhcCellInit \/ SetDefaultObserver
    \/ PortsBegin \/ PortVisit \/ PortsEnd
    \/ Cli \/ LenCheck \/ StiIdle \/ Hlt \/ Front \/ Pop \/ Sti \/ HasFront
    \/ ProcessEvent

Interrupt == Deliver \/ HandlerPush \/ HandlerEoi \/ HandlerIret

Next ==
    \/ MouseCursorInit \/ MainQueueInit \/ ScanAllBus \/ SelectXhcDev \/ UnwrapXhcDev
    \/ SetIdtEntry \/ LoadIdt \/ ConfigureMsi \/ ReadBar \/ ControllerNew
    \/ SwitchEhci2Xhci \/ Initialize \/ Run \/ XhcCellInit \/ SetDefaultObserver
    \/ PortsBegin \/ PortVisit \/ PortsEnd
    \/ Cli \/ LenCheck \/ StiIdle \/ Hlt \/ Front \/ Pop \/ Sti \/ HasFront
    \/ ProcessEvent
    \/ HwEvent
    \/ Deliver \/ HandlerPush \/ HandlerEoi \/ HandlerIret

Spec == Init /\ [][Next]_vars

\* the boot sequence alone, up to the entry of the dispatch loop, with the
\* controller and the interrupt path active as soon as the code enables them
BootNext ==
    \/ MouseCursorInit \/ MainQueueInit \/ ScanAllBus \/ SelectXhcDev \/ UnwrapXhcDev
    \/ SetIdtEntry \/ LoadIdt \/ ConfigureMsi \/ ReadBar \/ ControllerNew
    \/ SwitchEhci2Xhci \/ Initialize \/ Run \/ XhcCellInit \/ SetDefaultObserver
    \/ PortsBegin \/ PortVisit \/ PortsEnd
    \/ HwEvent
    \/ Deliver \/ HandlerPush \/ HandlerEoi \/ HandlerIret

BootSpec == BootInit /\ [][BootNext]_vars

\* the CPU keeps executing: the normal context and the handler each take
\* their next step when they have one; the controller owes no further event
FairSpec == Spec /\ WF_vars(Normal) /\ WF_vars(Interrupt)

(***************************************************************************)
(* Properties.                                                             *)
(***************************************************************************)
\* the handler has executed its last statement and is about to return
HandlerAtReturn == hpc = Len(int_handler_xhci) + 1

\* the handler executes its push in this step
HandlerPushStep == HandlerAt("push") /\ hpc' # hpc

\* the main loop executes its pop in this step
PopStep == pc = "pop" /\ pc' # pc

\* C1 (length): the main queue never holds fewer than 0 or more than 32
\* messages, and whenever it is empty a pop yields no value and leaves it empty.
C1_LenInv ==
    /\ ArrayQueue_len(queue) >= 0
    /\ ArrayQueue_len(queue) <= 32
    /\ ArrayQueue_len(queue) = 0 =>
          /\ ArrayQueue_pop(queue).value = NoMessage
          /\ ArrayQueue_pop(queue).q = <<>>

\* C1 (push on full): a push of the handler on a queue holding 32 messages is
\* rejected and leaves the stored messages and their order as they were; any
\* other push stores the message as the newest.
C1_PushStep ==
    HandlerPushStep =>
        IF Len(queue) = 32
        THEN queue' = queue /\ pushFailed'
        ELSE queue' = Append(queue, XhciMessage) /\ ~pushFailed'

\* C1 (pop): a pop of the main loop removes exactly the oldest message, so the
\* pop of the last message leaves len() = 0.
C1_PopStep ==
    PopStep => /\ Len(queue) > 0
               /\ queue' = Tail(queue)
               /\ (Len(queue) = 1 => ArrayQueue_len(queue') = 0)

\* C1: for every interleaving of handler pushes and main-loop pops the main
\* queue (capacity 32) keeps 0 <= len() <= 32, a push on the full queue fails
\* and leaves the queue unchanged, and once every message is popped len() = 0
\* and a further pop yields no value and leaves the queue empty.
C1_BoundedQueue == []C1_LenInv /\ [][C1_PushStep]_vars /\ [][C1_PopStep]_vars

\* C1 witness: the handler's push has just been rejected by the full queue
C1_Witness == pushFailed /\ Len(queue) = 32 /\ HandlerAtReturn

\* C2: in every boot the xHCI IDT entry is set before the IDT is loaded, the
\* IDT is loaded before MSI is configured on the chosen device, and MSI is
\* configured before the controller is started; the controller is never
\* running while the xHCI vector is not installed.
C2_BootOrder ==
    /\ idtLoaded => idtXhci
    /\ msiConfigured => idtLoaded
    /\ xhcState = "Running" => msiConfigured /\ idtLoaded /\ idtXhci
    /\ pc = "load_idt" => idtXhci /\ ~idtLoaded /\ ~msiConfigured /\ xhcState = "None"
    /\ pc = "configure_msi" => idtLoaded /\ ~msiConfigured /\ xhcState = "None"
    /\ pc = "run" => msiConfigured /\ xhcState # "Running"

\* C2 witness: the controller has just been started
C2_Witness == pc = "XHC" /\ xhcState = "Running" /\ msiConfigured

\* C3: every execution of the handler calls notify_end_of_interrupt exactly
\* once, after its push has completed, whether the push was stored or rejected:
\* no call precedes the push, and at the return the count is one.
C3_EoiOncePerInterrupt ==
    /\ hpc >= 0
    /\ eoiCount <= 1
    /\ eoiCount = 1 => pushDone
    /\ HandlerAtReturn => eoiCount = 1 /\ pushDone /\ ~inService

\* C3 witness: the handler returns after a rejected push and one acknowledgement
C3_Witness == HandlerAtReturn /\ pushFailed /\ eoiCount = 1

\* C4: when the handler pushes onto the full main queue the new message is the
\* one dropped: the queue is left exactly as it was, the failure is ignored and
\* the handler goes on to its end-of-interrupt and return; it never panics.
C4_FullPushStep ==
    /\ (HandlerPushStep /\ Len(queue) = MainQueueCapacity) =>
          /\ queue' = queue
          /\ pushFailed'
          /\ hpc' = hpc + 1
          /\ int_handler_xhci[hpc'] = "notify_end_of_interrupt"
    /\ (pushFailed /\ HandlerAtReturn /\ hpc' # hpc) => hpc' = 0 /\ queue' = queue
    /\ hpc' # -1

C4_DropNewest == [][C4_FullPushStep]_vars

\* C4 witness: the push was rejected by the full queue and the handler has
\* sent its end-of-interrupt
C4_Witness ==
    pushFailed /\ Len(queue) = MainQueueCapacity /\ HandlerAtReturn /\ ~inService

\* the statements of the dispatch loop that read or change the main queue,
\* up to the sti that ends the critical section
CriticalSection == {"len", "sti_idle", "front", "pop", "sti"}

\* C5: the dispatch loop's len(), front() and pop() run with interrupts
\* disabled, between its cli and the following sti; the handler's push runs
\* with interrupts masked; and the handler never runs while the loop is
\* between its cli and its sti.
C5_MaskedAccess ==
    /\ pc \in CriticalSection => ~iflag /\ hpc = 0 /\ cliN = 1
    /\ pc \in {"len", "sti_idle"} => stiN = 0
    /\ HandlerAt("push") => ~iflag
    /\ hpc # 0 => pc \notin CriticalSection

\* C5 witness: the handler is at its push, having interrupted the event drain
C5_Witness == HandlerAt("push") /\ pc = "process_event" /\ Len(queue) > 0

\* C6: in an iteration that finds the queue empty the loop has executed cli
\* once and sti once when it halts; and when exactly one interrupt has been
\* taken since that check (the one that ended the halt), the next length check
\* finds exactly one message.
C6_IdleIteration ==
    /\ pc \in {"hlt", "halted"} => cliN = 1 /\ stiN = 1 /\ idleIrqs >= 0
    /\ pc = "halted" => iflag
    /\ (pc = "len" /\ idleIrqs = 1) => Len(queue) = 1

\* C6 witness: the loop is back at its length check after a halt ended by one
\* interrupt
C6_Witness == pc = "len" /\ hpc = 0 /\ idleIrqs = 1 /\ Len(queue) = 1

\* an event singled out by the controller is on the ring, not yet processed
TrackedPending == \E k \in 1..Len(ring) : ring[k].tracked

\* C7: every event the controller places on the primary event ring is
\* eventually processed by process_event, while the normal context and the
\* handler keep executing.
C7_EveryEventProcessed == TrackedPending ~> ~TrackedPending

\* the statements of kernel_entry before the selection loop has run
BeforeSelection == {"MOUSE_CURSOR", "MAIN_QUEUE", "scan_all_bus", "select_xhc"}

IsXhci(d) == ClassMatch(d.class, 12, 3, 48)

XhciIndices == {i \in 1..Len(devices) : IsXhci(devices[i])}

IntelXhciIndices == {i \in XhciIndices : devices[i].vendor = IntelVendor}

Min(S) == CHOOSE x \in S : \A y \in S : x <= y

Max(S) == CHOOSE x \in S : \A y \in S : x >= y

\* C8: when the device table holds an xHCI device of vendor 0x8086, the
\* selection loop chooses an xHCI device of vendor 0x8086, wherever it is in
\* the enumeration order.
C8_IntelPreferred ==
    (pc \notin BeforeSelection /\ IntelXhciIndices # {}) =>
        /\ xhc_dev \in IntelXhciIndices
        /\ devices[xhc_dev].vendor = 32902

\* C8 witness: a non-Intel xHCI device is enumerated before the Intel one
C8_Witness ==
    /\ pc = "unwrap_xhc_dev"
    /\ Len(devices) = 2
    /\ IsXhci(devices[1]) /\ devices[1].vendor = OtherVendor
    /\ IsXhci(devices[2]) /\ devices[2].vendor = IntelVendor
    /\ xhc_dev = 2

\* C9 as stated: with xHCI devices none of which has vendor 0x8086, the
\* selection loop chooses the first matching device in enumeration order.
C9_FirstMatch ==
    (pc \notin BeforeSelection /\ XhciIndices # {} /\ IntelXhciIndices = {}) =>
        xhc_dev = Min(XhciIndices)

\* C9 amended: with xHCI devices none of which has vendor 0x8086, the
\* selection loop chooses the last matching device in enumeration order.
C9_LastMatch ==
    (pc \notin BeforeSelection /\ XhciIndices # {} /\ IntelXhciIndices = {}) =>
        xhc_dev = Max(XhciIndices)

\* C9 witness: two non-Intel xHCI devices, the second one chosen
C9_Witness ==
    /\ pc = "unwrap_xhc_dev"
    /\ XhciIndices = {1, 2} /\ IntelXhciIndices = {}
    /\ xhc_dev = 2

\* C10: during the port enumeration configure_port is never called on a port
\* that reported is_connected() = false, it is called exactly once on every
\* port that reported true, and when the enumeration ends every port
\* 1..max_ports() has been visited.
C10_PortEnumeration ==
    /\ \A i \in DOMAIN portReport :
          /\ portReport[i] = "connected" => (i < portI /\ configureCalls[i] = 1)
          /\ portReport[i] = "disconnected" => (i < portI /\ configureCalls[i] = 0)
          /\ portReport[i] = "unvisited" => (i >= portI /\ configureCalls[i] = 0)
    /\ pc = "cli" =>
          /\ DOMAIN portReport = 1..hubPorts
          /\ \A i \in 1..hubPorts : portReport[i] # "unvisited"

\* C10 witness: the enumeration has ended with a connected and a disconnected port
C10_Witness ==
    /\ pc = "cli"
    /\ \E i, j \in DOMAIN portReport :
          /\ portReport[i] = "connected" /\ configureCalls[i] = 1
          /\ portReport[j] = "disconnected" /\ configureCalls[j] = 0

\* C11: an error of configure_port on a port is not fatal: the failed port is
\* not configured again, the enumeration goes on to every remaining port up to
\* max_ports(), and control then enters the dispatch loop.
C11_ConfigureErrorSkips ==
    /\ \A i \in DOMAIN configureFailed :
          configureFailed[i] =>
              /\ portReport[i] = "connected"
              /\ configureCalls[i] = 1
              /\ i < portI
              /\ pc \in {"port_loop", "cli"}
    /\ pc = "port_loop" => portI \in 1..(maxPorts + 1)
    /\ pc = "cli" =>
          \A i \in 1..hubPorts : portReport[i] # "unvisited" /\ configureCalls[i] <= 1

\* C11 witness: the first port failed, a later port was still configured, and
\* control is at the dispatch loop
C11_Witness ==
    /\ pc = "cli"
    /\ \E i, j \in DOMAIN configureFailed :
          /\ i < j
          /\ configureFailed[i]
          /\ portReport[j] = "connected" /\ configureCalls[j] = 1

\* a step of the interrupt handler (a statement of its body or its return)
HandlerStep == hpc # 0 /\ hpc' # hpc

\* C12: the controller and its event ring belong to the normal context: a step
\* of the interrupt handler changes only the main queue and the end-of-interrupt
\* acknowledgement and leaves controller state, event-ring read cursor and the
\* per-port device state as they were; the read cursor moves and the controller
\* state changes only in steps of the normal context.
C12_HandlerLeaves ==
    HandlerStep =>
        UNCHANGED <<machine, bootErrs, drainVars, pc, cursorInit, mainQueueInit, pciVars, idtVars, xhcVars,
                    portVars, msg>>

C12_NormalOnly ==
    (Len(ring') < Len(ring) \/ xhcState' # xhcState \/ portVars' # portVars) =>
        hpc = 0 /\ hpc' = 0

C12_HandlerFrame == [][C12_HandlerLeaves /\ C12_NormalOnly]_vars

\* C12 witness: the handler has pushed and acknowledged while the controller
\* runs with an unread event on its ring and the loop is inside a drain
C12_Witness ==
    /\ hpc = Len(int_handler_xhci) + 1
    /\ pushDone /\ ~pushFailed
    /\ xhcState = "Running" /\ Len(ring) > 0
    /\ pc = "process_event"

\* the table holds an EHCI controller of vendor 0x8086
EhciOfIntelRecorded ==
    \E i \in 1..Len(devices) : devices[i] = [vendor |-> IntelVendor, class |-> EhciClass]

\* the handoff statement of lines 299-301 is behind the normal context
HandoffPassed == pc = "initialize" \/ xhcState \in {"Initialized", "Running"}

\* C13: the handoff writes to registers 0xD8 and 0xD0 happen exactly when the
\* chosen xHC is of vendor 0x8086 and an EHCI controller of vendor 0x8086 is in
\* the device table; they are complete when xhc.initialize() is called, and in
\* every other case the quirk writes no configuration register.
C13_Handoff ==
    confWrites =
        IF /\ HandoffPassed
           /\ xhc_dev # 0
           /\ devices[xhc_dev].vendor = IntelVendor
           /\ EhciOfIntelRecorded
        THEN <<216, 208>>
        ELSE <<>>

\* C13 witness: the controller was initialized after the two writes
C13_Witness ==
    /\ xhcState \in {"Initialized", "Running"}
    /\ confWrites = <<216, 208>>
    /\ EhciOfIntelRecorded

\* the device table, as it stands, holds no xHCI controller
NoXhciRecorded == \A i \in 1..Len(devices) : devices[i].class # XhciClass

\* the statements of kernel_entry up to the unwrap of line 266
UpToUnwrap == {"MOUSE_CURSOR", "MAIN_QUEUE", "scan_all_bus", "select_xhc", "unwrap_xhc_dev"}

\* C14: with no xHCI device in the table after scan_all_bus, whether the scan
\* succeeded or reported table-full, the boot aborts at the unwrap and the
\* processor halts for ever with no IDT entry set, no MSI configured and no
\* Controller constructed; with an xHCI device recorded, a table-full error of
\* the scan does not stop the boot.
C14_NothingBuilt ==
    NoXhciRecorded =>
        /\ pc \in UpToUnwrap \cup {"panic"}
        /\ ~idtXhci /\ ~idtLoaded /\ ~msiConfigured
        /\ xhcState = "None" /\ ~xhcCell

C14_TableFullGoesOn == ~NoXhciRecorded => pc # "panic"

C14_AbortStep ==
    /\ (pc = "unwrap_xhc_dev" /\ NoXhciRecorded /\ pc' # pc) => pc' = "panic"
    /\ pc = "panic" => UNCHANGED vars

C14_NoXhciAborts ==
    [](C14_NothingBuilt /\ C14_TableFullGoesOn) /\ [][C14_AbortStep]_vars

\* C14 witness: the table filled up before the scan reached the xHCI
\* controller of the bus, and the boot has aborted
C14_Witness ==
    /\ pc = "panic"
    /\ scanErr
    /\ NoXhciRecorded
    /\ \E i \in 1..Len(bus) : bus[i].class = XhciClass

\* C15: when read_bar(0) of the chosen xHCI device fails the boot aborts: no
\* Controller is constructed, initialized or run on the base address of a
\* failed BAR read.
C15_BarFailureAborts == barFailed => xhcState = "None"

\* a step of the normal context alone
MainStep == hpc = 0 /\ hpc' = 0 /\ pc' # pc

\* C16: the loop calls process_event() only when has_front() was true just
\* before; while has_front() is false the loop moves neither the read cursor of
\* the event ring nor any device state, and the dispatch of an InterruptXHCI
\* message drains the ring until has_front() is false.
C16_CalledOnFront ==
    pc = "process_event" => Len(ring) > 0 /\ msg = XhciMessage

C16_DrainStep ==
    /\ Len(ring') < Len(ring) =>
          pc = "process_event" /\ pc' = "has_front" /\ Len(ring') = Len(ring) - 1
    /\ (MainStep /\ pc = "has_front" /\ Len(ring) = 0) =>
          pc' = "cli" /\ UNCHANGED <<xhcVars, portVars>>
    /\ (MainStep /\ pc = "has_front" /\ Len(ring) > 0) => pc' = "process_event"
    /\ (MainStep /\ pc' = "process_event") => pc = "has_front"

C16_DrainOnlyOnFront == []C16_CalledOnFront /\ [][C16_DrainStep]_vars

\* C16 witness: a drain under way with two events behind one message
C16_Witness ==
    /\ pc = "process_event"
    /\ Len(ring) >= 2
    /\ popN = 1

\* C17: an error of process_event() abandons that event alone: the event is
\* consumed and not processed again, the drain neither exits nor halts but goes
\* on with the remaining events until has_front() is false, and the loop then
\* starts its next iteration.
C17_ErrorState == processErr => pc = "has_front"

C17_ErrorStep ==
    /\ processErr' /\ ~processErr => ring' = Tail(ring) /\ pc = "process_event"
    /\ (MainStep /\ processErr) =>
          /\ pc' = IF Len(ring) > 0 THEN "process_event" ELSE "cli"
          /\ ring' = ring

C17_ErrorAbandonsOneEvent == []C17_ErrorState /\ [][C17_ErrorStep]_vars

\* C17 witness: process_event returned an error and another event is waiting
C17_Witness ==
    /\ processErr
    /\ pc = "has_front"
    /\ hpc = 0
    /\ Len(ring) > 0

\* C18: the loop never sleeps in hlt with a message queued and no interrupt
\* pending, so that every message pushed by the handler is popped without a
\* further interrupt, also when the interrupt falls between the sti of line
\* 344 and the hlt of line 345.
C18_NoSleepWithMessage == pc = "halted" => (Len(queue) = 0 \/ irqPending)

\* the statements of the dispatch loop
LoopLabels ==
    {"cli", "len", "sti_idle", "hlt", "halted", "front", "pop", "sti", "has_front",
     "process_event"}

\* C19: in the loop interrupts are off only from the cli to the next sti of the
\* same iteration: the loop halts and drains with interrupts on, on the empty
\* and on the non-empty branch; a non-empty iteration removes one message, the
\* oldest, and no more.
C19_EnabledOutside ==
    /\ (hpc = 0 /\ pc \in {"hlt", "halted", "has_front", "process_event"}) =>
          iflag /\ cliN = 1 /\ stiN = 1
    /\ (hpc = 0 /\ pc \in LoopLabels \ {"cli"} /\ ~iflag) =>
          pc \in CriticalSection /\ cliN = 1 /\ stiN = 0
    /\ popN = IF pc \in {"sti", "has_front", "process_event"} THEN 1 ELSE 0
    /\ popN = 1 => msg = XhciMessage

C19_PopStep ==
    Len(queue') < Len(queue) =>
        /\ pc = "pop" /\ hpc = 0
        /\ msg = Head(queue)
        /\ queue' = Tail(queue)

C19_LoopDiscipline == []C19_EnabledOutside /\ [][C19_PopStep]_vars

\* C19 witness: a drain runs with interrupts on after one message of two was
\* removed from the queue
C19_Witness ==
    /\ pc = "process_event"
    /\ hpc = 0 /\ iflag
    /\ popN = 1
    /\ Len(queue) > 0

\* C20: every singleton is set before it is first used: MAIN_QUEUE before the
\* xHCI vector is installed and MSI configured, so that the unwrap of the
\* handler never fails; XHC before the loop reads it; MOUSE_CURSOR and the
\* observer before any process_event call can reach the observer.
C20_InitBeforeUse ==
    /\ (idtXhci \/ msiConfigured) => mainQueueInit
    /\ hpc # 0 => mainQueueInit
    /\ hpc # -1
    /\ pc \in LoopLabels => mainQueueInit /\ xhcCell /\ cursorInit /\ observerSet
    /\ xhcState = "Running" => cursorInit
    /\ pc = "panic" => xhc_dev = 0 /\ xhcState = "None"

\* C20 witness: the handler is at its push as early as an interrupt can be
\* taken, right after xhc.run()
C20_Witness ==
    /\ HandlerAt("push")
    /\ pc = "XHC"
    /\ mainQueueInit

====
